---- MODULE Spec2Model ----
(***************************************************************************)
(* m101tools: the Setup Checker (src/m101tools/checker.py) and the GPU     *)
(* Monitor (src/m101tools/gpu.py) as state machines.                       *)
(*                                                                         *)
(* Every external collaborator (filesystem, import machinery, torch,       *)
(* pynvml, dotenv) is a nondeterministic input of the step that consults   *)
(* it; what the step saw is kept in obs so that the properties can refer   *)
(* to it.  An exception that leaves a function is recorded in raised.      *)
(***************************************************************************)
EXTENDS Integers, Sequences, FiniteSets, TLC

VARIABLES
    \* SetupChecker fields (checker.py:38-41)
    env_path, model_path, dependencies, results,
    \* process environment: the value of MODEL_PATH in os.environ
    environ,
    \* control: the call run_all makes next ("idle" outside run_all)
    pc,
    \* the current / most recent top-level call
    runState,      \* "none" | "running" | "returned" | "aborted"
    lastOp,        \* the check that ran last
    raised,        \* the exception that left it ("none" if it returned)
    obs,           \* what that check saw of the outside world
    trace,         \* checks invoked and environment accesses of the top-level call
    printed,       \* the lines the last check printed
    direct,        \* direct calls of check operations made so far
    \* GPU Monitor (gpu.py)
    nvModule,      \* "unloaded" | "loaded" | "import_failed"
    handle,        \* the handle the caller holds
    gop, gret, graised, gout, nvCalls

checkerVars == <<env_path, model_path, dependencies, results, environ, pc,
                 runState, lastOp, raised, obs, trace, printed, direct>>
gpuVars == <<nvModule, handle, gop, gret, graised, gout, nvCalls>>
vars == <<checkerVars, gpuVars>>

----------------------------------------------------------------------------
(* Bounds *)
MaxDeps == 2        \* longest configured dependency list
MaxDirect == 1      \* direct calls of check operations on one checker
MaxLines == 2       \* longest configuration file, in lines
MaxCalls == 7       \* vendor-library calls counted before the monitor stops
MaxOut == 3         \* console lines counted before the monitor stops

(* Values *)
None == "<None>"
Unset == "<unset>"
Names == {"a", "b"}                     \* module names a caller may configure
Paths == {"/m", "/e"}                   \* non-empty paths
ModelArgs == {None, "", "/m"}           \* constructor argument model_path
EnvValues == {Unset, "/e"}              \* MODEL_PATH in the process environment
Keys == {"python", "pytorch", "gpu_memory", "env", "dotenv", "model", "dependencies"}
CheckNames == {"check_python", "check_pytorch", "check_gpu_memory", "check_env",
               "check_dotenv", "check_model_path", "check_dependencies"}
SysVersion == "3.11.6 (main)"

SeqsUpTo(S, n) == UNION {[1..k -> S] : k \in 0..n}

\* Python truthiness of an optional string: None and "" are falsy
Truthy(x) == x # None /\ x # ""

\* a slip: the entry is stored into a fresh mapping instead of self.results
RecordIntoFresh(m, key, val) == [k \in {key} |-> val]

\* results[key] = val
Record(m, key, val) == [k \in DOMAIN m \cup {key} |-> IF k = key THEN val ELSE m[k]]

----------------------------------------------------------------------------
(* SetupChecker.__init__ *)
\* the argument `dependencies`: None, or a list of names
\* lists of distinct names, MaxDeps long at most (and no longer than Names allows)
DepLists == {d \in SeqsUpTo(Names, MaxDeps) : \A i, j \in DOMAIN d : d[i] = d[j] => i = j}
DepsArgs == {[isNone |-> TRUE, val |-> <<>>]} \cup [isNone : {FALSE}, val : DepLists]

\* self.dependencies = dependencies or []
CtorDeps(arg) == IF arg.isNone \/ arg.val = <<>> THEN <<>> ELSE arg.val

CheckerInit ==
    /\ env_path = ".env"
    /\ model_path \in ModelArgs
    /\ \E arg \in DepsArgs : dependencies = CtorDeps(arg)
    /\ results = <<>>
    /\ environ \in EnvValues
    /\ pc = "idle"
    /\ runState = "none"
    /\ lastOp = "__init__"
    /\ raised = "none"
    /\ obs = [kind |-> "none"]
    /\ trace = <<>>
    /\ printed = <<>>
    /\ direct = 0

GpuIdle ==
    /\ nvModule = "unloaded"
    /\ handle = None
    /\ gop = "none"
    /\ gret = [type |-> "none", val |-> 0]
    /\ graised = "none"
    /\ gout = <<>>
    /\ nvCalls = 0

----------------------------------------------------------------------------
(* run_all's sequencing *)
\* a slip: run_all without its `if self.dependencies:` guard
DepsConfiguredAlways(deps) == TRUE

\* if self.dependencies:
DepsConfigured(deps) == deps # <<>>

After(op) ==
    CASE op = "check_python"       -> "check_pytorch"
      [] op = "check_pytorch"      -> "check_gpu_memory"
      [] op = "check_gpu_memory"   -> "check_env"
      [] op = "check_env"          -> "check_dotenv"
      [] op = "check_dotenv"       -> "check_model_path"
      [] op = "check_model_path"   -> IF DepsConfigured(dependencies)
                                      THEN "check_dependencies" ELSE "return"
      [] op = "check_dependencies" -> "return"

\* A check is entered by a direct call (pc = "idle") or as run_all's next call.
Enter(op) == pc = op \/ (pc = "idle" /\ direct < MaxDirect)

\* The check ends: it returns, or exc leaves it (and run_all, if run_all called it).
Leave(op, exc, events, seen, lines) ==
    /\ lastOp' = op
    /\ raised' = exc
    /\ obs' = seen
    /\ printed' = lines
    /\ trace' = (IF pc = "idle" THEN <<>> ELSE trace) \o <<op>> \o events
    /\ pc' = IF pc = "idle" \/ exc # "none" THEN "idle" ELSE After(op)
    /\ runState' = IF pc = "idle" THEN "none"
                   ELSE IF exc # "none" THEN "aborted" ELSE "running"
    /\ direct' = IF pc = "idle" THEN direct + 1 ELSE direct
    /\ UNCHANGED <<env_path, model_path, dependencies, gpuVars>>

----------------------------------------------------------------------------
(* check_python *)
check_python ==
    /\ Enter("check_python")
    /\ results' = Record(results, "python", SysVersion)
    /\ UNCHANGED environ
    /\ Leave("check_python", "none", <<>>, [kind |-> "none"], <<"Python version">>)

(* check_pytorch *)
\* import: whether `import torch` succeeds; cuda: torch.cuda.is_available();
\* name: whether torch.cuda.get_device_name(0) returns
TorchOutcomes == {[import |-> FALSE, cuda |-> FALSE, name |-> FALSE],
                  [import |-> TRUE,  cuda |-> FALSE, name |-> FALSE],
                  [import |-> TRUE,  cuda |-> TRUE,  name |-> TRUE]}

\* the try body: the exception it raises ("none" if it completes)
TorchError(o) == IF ~o.import THEN "No module named 'torch'"
                 ELSE IF o.cuda /\ ~o.name THEN "CUDA error"
                 ELSE "none"

TorchInfo(o) == [version |-> "2.x", cuda_available |-> o.cuda,
                 cuda_version |-> IF o.cuda THEN "12.x" ELSE None,
                 gpu_model |-> IF o.cuda THEN "GPU0" ELSE None]

check_pytorch ==
    /\ Enter("check_pytorch")
    /\ \E o \in TorchOutcomes :
         LET e == TorchError(o) IN
         /\ results' = Record(results, "pytorch",
                              IF e = "none" THEN TorchInfo(o) ELSE [error |-> e])
         /\ Leave("check_pytorch", "none", <<>>, [kind |-> "torch", o |-> o],
                  IF e # "none" THEN <<"PyTorch error">>
                  ELSE <<"PyTorch version", "CUDA available", "CUDA version">>
                       \o (IF Truthy(TorchInfo(o).gpu_model) THEN <<"GPU model">> ELSE <<>>))
    /\ UNCHANGED environ

(* check_gpu_memory *)
GiB == 1073741824
\* import: whether `import pynvml` succeeds; query: whether nvmlInit, the handle
\* lookup and the memory query all return
NvmlOutcomes == {[import |-> FALSE, query |-> FALSE, free |-> 0, total |-> 0],
                 [import |-> TRUE, query |-> TRUE, free |-> 0, total |-> GiB]}

NvmlError(o) == IF ~o.import THEN "No module named 'pynvml'"
                ELSE IF ~o.query THEN "NVML error"
                ELSE "none"

\* bytes / 1024**3, on byte counts that are whole gibibytes
ToGb(bytes) == bytes \div GiB

check_gpu_memory ==
    /\ Enter("check_gpu_memory")
    /\ \E o \in NvmlOutcomes :
         LET e == NvmlError(o) IN
         /\ results' = Record(results, "gpu_memory",
                              IF e = "none"
                              THEN [free_gb |-> ToGb(o.free), total_gb |-> ToGb(o.total)]
                              ELSE [error |-> e])
         /\ Leave("check_gpu_memory", "none", <<>>, [kind |-> "nvml", o |-> o],
                  IF e = "none" THEN <<"GPU memory">> ELSE <<"GPU memory error">>)
    /\ UNCHANGED environ

----------------------------------------------------------------------------
(* check_env *)
MaxLineLen == 2
Chars == {" ", "#", "K"}
IsSpace(c) == c \in {" ", "\n"}

\* the lines a text file yields when iterated: each ends with its newline
LinesOfFile == {l \o <<"\n">> : l \in SeqsUpTo(Chars, MaxLineLen)}

\* what may be found at env_path
Absent == [kind |-> "absent", lines |-> <<>>]
Unreadable == [kind |-> "unreadable", lines |-> <<>>]   \* exists, but open() or decoding fails
FilesUpTo(n) == {Absent, Unreadable}
                \cup [kind : {"file"}, lines : SeqsUpTo(LinesOfFile, n)]
AllFiles == FilesUpTo(MaxLines)
SomeFiles == {Absent, Unreadable,
              [kind |-> "file", lines |-> << <<"K", "\n">>, <<"#", "\n">>, <<"K", "\n">> >>]}

\* os.path.exists(self.env_path)
Exists(f) == f.kind # "absent"

RECURSIVE LStrip(_)
LStrip(s) == IF s # <<>> /\ IsSpace(Head(s)) THEN LStrip(Tail(s)) ELSE s

RECURSIVE RStrip(_)
RStrip(s) == IF s # <<>> /\ IsSpace(s[Len(s)]) THEN RStrip(SubSeq(s, 1, Len(s) - 1)) ELSE s

\* str.strip()
Strip(s) == RStrip(LStrip(s))

\* str.startswith("#")
StartsWithHash(s) == Len(s) >= 1 /\ s[1] = "#"

\* l.strip() and not l.strip().startswith("#")
KeptLine(l) == Strip(l) # <<>> /\ ~StartsWithHash(Strip(l))

\* len([l for l in f if ...])
CountEntries(lines) == Len(SelectSeq(lines, KeptLine))

check_env_on(F) ==
    /\ Enter("check_env")
    /\ \E f \in F :
         IF Exists(f)
         THEN IF f.kind = "unreadable"
              THEN /\ results' = results
                   /\ Leave("check_env", "OSError", <<>>, f, <<>>)
              ELSE /\ results' = Record(results, "env",
                                        [found |-> TRUE, count |-> CountEntries(f.lines)])
                   /\ Leave("check_env", "none", <<>>, f, <<"Env variables found">>)
         ELSE /\ results' = Record(results, "env", [found |-> FALSE])
              /\ Leave("check_env", "none", <<>>, f,
                       <<"Unable to reach environment variables">>)
    /\ UNCHANGED environ

check_env == check_env_on(SomeFiles)

----------------------------------------------------------------------------
(* check_dotenv *)
\* import: whether `from dotenv import load_dotenv` succeeds; load: whether
\* load_dotenv returns; val: the value the file gives MODEL_PATH
DotenvOutcomes == {[import |-> FALSE, load |-> FALSE, val |-> Unset]}
                  \cup [import : {TRUE}, load : {TRUE}, val : EnvValues]

DotenvError(o) == IF ~o.import THEN "No module named 'dotenv'"
                  ELSE IF ~o.load THEN "load error"
                  ELSE "none"

\* load_dotenv(path): a key already in the environment keeps its value
LoadDotenv(env, val) == IF env = Unset THEN val ELSE env

check_dotenv ==
    /\ Enter("check_dotenv")
    /\ \E o \in DotenvOutcomes :
         LET e == DotenvError(o) IN
         /\ environ' = IF e = "none" THEN LoadDotenv(environ, o.val) ELSE environ
         /\ results' = Record(results, "dotenv",
                              IF e = "none" THEN [loaded |-> TRUE] ELSE [error |-> e])
         /\ Leave("check_dotenv", "none",
                  IF e = "none" THEN <<"environ.write">> ELSE <<>>,
                  [kind |-> "dotenv", o |-> o],
                  IF e = "none" THEN <<"Dotenv loaded successfully">> ELSE <<"Dotenv error">>)

----------------------------------------------------------------------------
(* check_model_path *)
\* os.getenv("MODEL_PATH", default)
Getenv(env, default) == IF env = Unset THEN default ELSE env

\* a slip: os.getenv("MODEL_PATH") is looked up before model_path is considered
ReadsEnvAlways(mp) == TRUE

\* whether `self.model_path or os.getenv(...)` evaluates its right operand
ReadsEnv(mp) == ~Truthy(mp)

\* path = self.model_path or os.getenv("MODEL_PATH", "")
ResolvePath(mp, env) == IF ReadsEnv(mp) THEN Getenv(env, "") ELSE mp

\* path and os.path.exists(path), on a filesystem holding the paths fs
PathFound(path, fs) == Truthy(path) /\ path \in fs

check_model_path ==
    /\ Enter("check_model_path")
    /\ \E fs \in SUBSET Paths :
         LET path == ResolvePath(model_path, environ) IN
         /\ results' = Record(results, "model",
                              [found |-> PathFound(path, fs), path |-> path])
         /\ Leave("check_model_path", "none",
                  IF ReadsEnv(model_path) THEN <<"environ.read">> ELSE <<>>,
                  [kind |-> "fs", fs |-> fs, env |-> environ],
                  IF PathFound(path, fs) THEN <<"Model found">> ELSE <<"Model not found">>)
    /\ UNCHANGED environ

----------------------------------------------------------------------------
(* check_dependencies *)
ImportOutcomes == {"ok", "ImportError", "Exception"}
Range(s) == {s[i] : i \in DOMAIN s}

\* the for loop from position i on: the names collected, and the exception
\* that ends the loop early ("none" if it runs to the end)
RECURSIVE ImportLoop(_, _, _, _)
ImportLoop(deps, i, missing, imp) ==
    IF i > Len(deps) THEN [missing |-> missing, exc |-> "none"]
    ELSE IF imp[deps[i]] = "ok" THEN ImportLoop(deps, i + 1, missing, imp)
    ELSE IF imp[deps[i]] = "ImportError"
         THEN ImportLoop(deps, i + 1, Append(missing, deps[i]), imp)
    ELSE [missing |-> missing, exc |-> imp[deps[i]]]

check_dependencies ==
    /\ Enter("check_dependencies")
    /\ \E imp \in [Range(dependencies) -> ImportOutcomes] :
         LET r == ImportLoop(dependencies, 1, <<>>, imp) IN
         IF r.exc = "none"
         THEN /\ results' = Record(results, "dependencies", [missing |-> r.missing])
              /\ Leave("check_dependencies", "none", <<>>, [kind |-> "import", imp |-> imp],
                       IF r.missing # <<>> THEN <<"Dependencies: missing">>
                       ELSE <<"Dependencies: All installed">>)
         ELSE /\ results' = results
              /\ Leave("check_dependencies", r.exc, <<>>, [kind |-> "import", imp |-> imp],
                       <<>>)
    /\ UNCHANGED environ

----------------------------------------------------------------------------
(* run_all *)
Banner(text) == <<"====", text, "====">>

run_all_begin ==
    /\ pc = "idle"
    /\ pc' = "check_python"
    /\ runState' = "running"
    /\ lastOp' = "run_all"
    /\ raised' = "none"
    /\ obs' = [kind |-> "none"]
    /\ trace' = <<>>
    /\ printed' = Banner("Server setup verification")
    /\ UNCHANGED <<env_path, model_path, dependencies, results, environ, direct, gpuVars>>

\* return self.results
run_all_return ==
    /\ pc = "return"
    /\ pc' = "idle"
    /\ runState' = "returned"
    /\ lastOp' = "run_all"
    /\ raised' = "none"
    /\ obs' = [kind |-> "none"]
    /\ printed' = Banner("End of checks")
    /\ UNCHANGED <<env_path, model_path, dependencies, results, environ, trace, direct,
                   gpuVars>>

----------------------------------------------------------------------------
Init == CheckerInit /\ GpuIdle

Next ==
    \/ check_python
    \/ check_pytorch
    \/ check_gpu_memory
    \/ check_env
    \/ check_dotenv
    \/ check_model_path
    \/ check_dependencies
    \/ run_all_begin
    \/ run_all_return

Spec == Init /\ [][Next]_vars

----------------------------------------------------------------------------
(* GPU Monitor: gpu.py *)
Ret(type, val) == [type |-> type, val |-> val]
Float0 == Ret("float", 0)               \* 0.0; floats are kept in hundredths

\* line 1, run when the module is first imported: import pynvml as nv
gpu_import ==
    /\ nvModule # "loaded"
    /\ \E installed \in BOOLEAN :
         /\ nvModule' = IF installed THEN "loaded" ELSE "import_failed"
         /\ graised' = IF installed THEN "none" ELSE "ModuleNotFoundError"
    /\ gop' = "import"
    /\ gret' = Ret("none", 0)
    /\ UNCHANGED <<handle, gout, nvCalls, checkerVars>>

\* init: which of nvmlInit, nvmlDeviceGetHandleByIndex and nvmlDeviceGetName
\* return, and what the name is
NameKinds == {"str", "bytes", "undecodable bytes"}
InitOutcomes == {[init |-> FALSE, handle |-> FALSE, name |-> "none"],
                 [init |-> TRUE, handle |-> FALSE, name |-> "none"],
                 [init |-> TRUE, handle |-> TRUE, name |-> "none"]}
                \cup [init : {TRUE}, handle : {TRUE}, name : NameKinds]

\* the vendor calls init makes before it returns or an exception ends the try body
InitCalls(o) == IF ~o.init THEN 1 ELSE IF ~o.handle THEN 2 ELSE 3

\* whether the try body of init runs to its return
InitSucceeds(o) == o.init /\ o.handle /\ o.name \in {"str", "bytes"}

init ==
    /\ nvModule = "loaded"
    /\ nvCalls + 3 <= MaxCalls
    /\ Len(gout) < MaxOut
    /\ \E o \in InitOutcomes :
         /\ nvCalls' = nvCalls + InitCalls(o)
         /\ gret' = IF InitSucceeds(o) THEN Ret("handle", 0) ELSE Ret("None", 0)
         /\ handle' = IF InitSucceeds(o) THEN "dev0" ELSE None
         /\ gout' = Append(gout, IF InitSucceeds(o) THEN "[GPU] Using"
                                 ELSE "[WARNING] GPU monitoring is not available")
    /\ gop' = "init"
    /\ graised' = "none"
    /\ UNCHANGED <<nvModule, checkerVars>>

\* round(used / 1024**3, 2) in hundredths, on byte counts that are whole mebibytes:
\* ties go to the even neighbour
MiB == GiB \div 1024
RoundGb(used) ==
    LET n == (used \div MiB) * 100
        q == n \div 1024
        r == n % 1024
    IN IF 2 * r > 1024 \/ (2 * r = 1024 /\ q % 2 = 1) THEN q + 1 ELSE q

UsedBytes == {0, 128 * MiB, 384 * MiB, GiB + 5 * MiB}
MemOutcomes == {[ok |-> FALSE, used |-> 0]} \cup [ok : {TRUE}, used : UsedBytes]

\* a slip: memory without its `if handle is None` guard, so that the query is
\* made with None, fails, and the except branch answers
memory_unguarded(h, o) ==
    IF h # None /\ o.ok THEN [ret |-> Ret("float", RoundGb(o.used)), calls |-> 1, out |-> <<>>]
    ELSE [ret |-> Float0, calls |-> 1, out |-> <<"[WARNING] Failed to get GPU memory">>]

\* memory(h): the value returned, the vendor calls made, the lines printed
memory_of(h, o) ==
    IF h = None THEN [ret |-> Float0, calls |-> 0, out |-> <<>>]
    ELSE IF o.ok THEN [ret |-> Ret("float", RoundGb(o.used)), calls |-> 1, out |-> <<>>]
    ELSE [ret |-> Float0, calls |-> 1, out |-> <<"[WARNING] Failed to get GPU memory">>]

\* the handles a caller can pass: the sentinel, or the one init gave it
Handles == {None, handle}

memory ==
    /\ nvModule = "loaded"
    /\ \E h \in Handles, o \in MemOutcomes :
         LET r == memory_of(h, o) IN
         /\ nvCalls + r.calls <= MaxCalls
         /\ Len(gout) + Len(r.out) <= MaxOut
         /\ gret' = r.ret
         /\ nvCalls' = nvCalls + r.calls
         /\ gout' = gout \o r.out
         /\ gop' = IF h = None THEN "memory(None)" ELSE "memory(handle)"
    /\ graised' = "none"
    /\ UNCHANGED <<nvModule, handle, checkerVars>>

Percent == {0, 50, 100}
UtilOutcomes == {[ok |-> FALSE, gpu |-> 0]} \cup [ok : {TRUE}, gpu : Percent]

\* utilization(h): util.gpu is the library's integer; the fallbacks are 0.0
utilization_of(h, o) ==
    IF h = None THEN [ret |-> Float0, calls |-> 0, out |-> <<>>]
    ELSE IF o.ok THEN [ret |-> Ret("int", o.gpu), calls |-> 1, out |-> <<>>]
    ELSE [ret |-> Float0, calls |-> 1, out |-> <<>>]

utilization ==
    /\ nvModule = "loaded"
    /\ \E h \in Handles, o \in UtilOutcomes :
         LET r == utilization_of(h, o) IN
         /\ nvCalls + r.calls <= MaxCalls
         /\ Len(gout) + Len(r.out) <= MaxOut
         /\ gret' = r.ret
         /\ nvCalls' = nvCalls + r.calls
         /\ gout' = gout \o r.out
         /\ gop' = IF h = None THEN "utilization(None)" ELSE "utilization(handle)"
    /\ graised' = "none"
    /\ UNCHANGED <<nvModule, handle, checkerVars>>

\* the monitor beside a checker built with the default arguments
InitGpu ==
    /\ CheckerInit
    /\ model_path = None /\ dependencies = <<>> /\ environ = Unset
    /\ GpuIdle

NextGpu ==
    \/ gpu_import
    \/ init
    \/ memory
    \/ utilization

SpecGpu == InitGpu /\ [][NextGpu]_vars

----------------------------------------------------------------------------
(* check_env alone, on every configuration file within the bounds *)
check_env_all == check_env_on(AllFiles)

NextEnv == check_env_all

SpecEnv == Init /\ [][NextEnv]_vars

----------------------------------------------------------------------------
(* Properties *)

Count(s, e) == Cardinality({i \in DOMAIN s : s[i] = e})
IsCheck(e) == e \in CheckNames
Calls(s) == SelectSeq(s, IsCheck)

\* C1: every check operation returns normally: no exception leaves a check,
\* whatever the filesystem, the import machinery and the libraries do.
C1_NoCheckRaises == lastOp \in CheckNames => raised = "none"

\* C2 (as stated): the mapping run_all returns on a checker without configured
\* dependencies has no 'dependencies' entry, whatever was called before.
C2_RunAllOmitsDependencies ==
    (runState = "returned" /\ dependencies = <<>>) => "dependencies" \notin DOMAIN results

\* C2 (amended): on a checker without configured dependencies no step of run_all
\* adds or removes the 'dependencies' entry: the mapping it returns has one only
\* if check_dependencies had recorded it before the call.
C2_RunAllAddsNoDependencies ==
    [][(pc # "idle" /\ dependencies = <<>>)
         => (("dependencies" \in DOMAIN results') <=> ("dependencies" \in DOMAIN results))]_vars

C2_Witness ==
    /\ runState = "returned"
    /\ dependencies = <<>>
    /\ direct = 0
    /\ "dependencies" \notin DOMAIN results

\* C3: after check_dependencies, results['dependencies'] is {missing: M}, M being
\* the configured names whose import fails, in configuration order.
FailedImports(deps, imp) == LET Fails(d) == imp[d] # "ok" IN SelectSeq(deps, Fails)

C3_MissingIsFailedImports ==
    lastOp = "check_dependencies"
      => /\ "dependencies" \in DOMAIN results
         /\ results["dependencies"] = [missing |-> FailedImports(dependencies, obs.imp)]

\* C4: after check_env, results['env'] is {found: false} if env_path does not
\* exist, and {found: true, count: N} if it does, N being the number of lines
\* that are neither blank nor comments.
Blank(l) == \A i \in DOMAIN l : IsSpace(l[i])
Comment(l) == \E i \in DOMAIN l : l[i] = "#" /\ \A j \in 1..(i - 1) : IsSpace(l[j])
DataLines(lines) == Cardinality({i \in DOMAIN lines : ~Blank(lines[i]) /\ ~Comment(lines[i])})

C4_EnvEntry ==
    lastOp = "check_env"
      => /\ "env" \in DOMAIN results
         /\ results["env"] = IF obs.kind = "absent" THEN [found |-> FALSE]
                             ELSE [found |-> TRUE, count |-> DataLines(obs.lines)]

\* C5: check_model_path records the constructor argument whenever one was given,
\* else the value of MODEL_PATH, else ""; found is true exactly when the recorded
\* path exists.
C5_PathResolution ==
    lastOp = "check_model_path"
      => LET path == IF model_path # None THEN model_path ELSE Getenv(obs.env, "")
         IN /\ "model" \in DOMAIN results
            /\ results["model"] = [found |-> path \in obs.fs, path |-> path]

\* C6: using the GPU Monitor's init never ends in an exception: when the vendor
\* library is absent the caller gets a printed warning and None.
C6_InitNeverRaises ==
    /\ graised = "none"
    /\ nvModule = "import_failed" => (gret = Ret("None", 0) /\ gout # <<>>)

\* C7 (as stated): within a run_all the environment is written at most once and
\* nothing reads it after it was written.
C7_NoReadAfterWrite ==
    runState # "none"
      => /\ Count(trace, "environ.write") <= 1
         /\ \A i, j \in DOMAIN trace :
              (trace[i] = "environ.write" /\ trace[j] = "environ.read") => j < i

\* C7 (amended): within a run_all the environment is written at most once, by
\* check_dotenv, and read at most once, by check_model_path looking up MODEL_PATH,
\* which it does only when model_path is None or empty.
C7_ReadBackOnlyByModelPath ==
    runState # "none"
      => /\ Count(trace, "environ.write") <= 1
         /\ Count(trace, "environ.read") <= 1
         /\ \A i \in DOMAIN trace :
              /\ trace[i] = "environ.write" => (i > 1 /\ trace[i - 1] = "check_dotenv")
              /\ trace[i] = "environ.read"
                   => (i > 1 /\ trace[i - 1] = "check_model_path"
                       /\ model_path \in {None, ""})

C7_Witness ==
    /\ runState = "returned"
    /\ \E i, j \in DOMAIN trace :
         i < j /\ trace[i] = "environ.write" /\ trace[j] = "environ.read"
    /\ obs.kind = "none"

\* C8: every run_all calls the six checks once each in the fixed order, then
\* check_dependencies if dependencies are configured, and returns the mapping
\* with the six entries.
RunAllCalls(deps) ==
    <<"check_python", "check_pytorch", "check_gpu_memory", "check_env", "check_dotenv",
      "check_model_path">> \o (IF deps # <<>> THEN <<"check_dependencies">> ELSE <<>>)

C8_RunAllOrder ==
    runState \in {"returned", "aborted"}
      => /\ runState = "returned"
         /\ Calls(trace) = RunAllCalls(dependencies)
         /\ (Keys \ {"dependencies"}) \subseteq DOMAIN results

\* C9: memory(None) and utilization(None) return 0.0, call nothing of the vendor
\* library and print nothing.
C9_SentinelShortCircuit ==
    [][gop' \in {"memory(None)", "utilization(None)"}
         => (gret' = Float0 /\ nvCalls' = nvCalls /\ gout' = gout)]_vars

C9_Witness ==
    /\ gop \in {"memory(None)", "utilization(None)"}
    /\ handle = None
    /\ nvCalls > 0
    /\ gret = Float0

\* C10: the results mapping starts empty; every step writes at most the entry of
\* the check it runs and leaves the other entries as they were; so no entry is
\* removed and every key is one of the seven.
KeyOf(op) ==
    CASE op = "check_python"       -> "python"
      [] op = "check_pytorch"      -> "pytorch"
      [] op = "check_gpu_memory"   -> "gpu_memory"
      [] op = "check_env"          -> "env"
      [] op = "check_dotenv"       -> "dotenv"
      [] op = "check_model_path"   -> "model"
      [] op = "check_dependencies" -> "dependencies"
      [] OTHER                     -> "(none)"

FrameStep ==
    /\ DOMAIN results \subseteq DOMAIN results'
    /\ DOMAIN results' \subseteq DOMAIN results \cup ({KeyOf(lastOp')} \cap Keys)
    /\ \A k \in DOMAIN results : k # KeyOf(lastOp') => results'[k] = results[k]

C10_ResultsFrame ==
    /\ results = <<>>
    /\ [][FrameStep]_vars
    /\ [](DOMAIN results \subseteq Keys)

C10_Witness ==
    /\ DOMAIN results = Keys
    /\ runState = "none"
    /\ lastOp = "check_env"
    /\ results["env"] = [found |-> FALSE]

----------------------------------------------------------------------------
(* What does hold of the checks that C1 finds raising *)

\* a check that returns has recorded its entry
ReturnedChecksRecord ==
    (lastOp \in CheckNames /\ raised = "none") => KeyOf(lastOp) \in DOMAIN results

\* only check_env and check_dependencies let an exception out
OnlyEnvAndDependenciesRaise ==
    raised # "none" => lastOp \in {"check_env", "check_dependencies"}

\* check_dependencies, when it returns, has recorded the failed imports in order
DependenciesWhenReturned ==
    (lastOp = "check_dependencies" /\ raised = "none")
      => results["dependencies"] = [missing |-> FailedImports(dependencies, obs.imp)]

\* check_env, when the path is absent or a readable file, records what C4 says
EnvEntryWhenReadable ==
    (lastOp = "check_env" /\ obs.kind # "unreadable")
      => results["env"] = IF obs.kind = "absent" THEN [found |-> FALSE]
                          ELSE [found |-> TRUE, count |-> DataLines(obs.lines)]

\* check_model_path with an argument other than "" records what C5 says
ModelEntryUnlessEmptyArgument ==
    (lastOp = "check_model_path" /\ model_path # "")
      => LET path == IF model_path # None THEN model_path ELSE Getenv(obs.env, "")
         IN results["model"] = [found |-> path \in obs.fs, path |-> path]

\* a run_all that returns has made the calls of C8 and holds the six entries
RunAllWhenReturned ==
    runState = "returned"
      => /\ Calls(trace) = RunAllCalls(dependencies)
         /\ (Keys \ {"dependencies"}) \subseteq DOMAIN results

\* once the module is imported, init, memory and utilization never raise
MonitorCatchesOnceImported == nvModule = "loaded" => graised = "none"

====
